---- MODULE Spec2Model ----
(***************************************************************************)
(* Model of async_trace/tracer.py: the lineage registry (_task_parents),   *)
(* the dispatch store (_executor_contexts), the traced create_task and     *)
(* run_in_executor wrappers, and collect_async_trace.                      *)
(*                                                                         *)
(* Encoding of Python values:                                              *)
(*   - a dict is a function whose DOMAIN is the set of keys present;       *)
(*   - None is 0 for a task or a line number (tasks and lines are >= 1)    *)
(*     and the empty path for a filename;                                  *)
(*   - a filename is the sequence of its path components, so that          *)
(*     str.endswith is a test on a suffix of components;                   *)
(*   - the "code" field of a frame dict (the source text of the line) is   *)
(*     a function of filename and line and is left out.                    *)
(***************************************************************************)
EXTENDS Integers, Sequences, FiniteSets, TLC

\* ------------------------------------------------------------------ bounds
MaxTasks == 3          \* tasks created in SpecLineage
MaxStackLen == 1       \* user frames on a call stack
MaxDispatchTasks == 1  \* tasks created in Spec
MaxDispatches == 1     \* run_in_executor calls in Spec
MaxWraps == 2          \* tracing wrappers stacked on one loop's run_in_executor
MaxWalkTasks == 3      \* tasks of the registries given to the lineage walk
MaxPoolDispatches == 2 \* run_in_executor calls in SpecPool

\* ------------------------------------------------------- Python constants
None == 0
NoFile == <<>>

\* ------------------------------------------------------------- frames
Frame(n, l, f) == [name |-> n, line |-> l, filename |-> f]

UserFile == <<"app", "x.py">>
TracerFile == <<"async_trace", "tracer.py">>

UserFrames == {Frame("f", 10, UserFile), Frame("g", 20, UserFile)}

TracerFrame(n) == Frame(n, 1, TracerFile)

\* The frames below user code on a thread with no running loop, on the thread
\* that runs the event loop, and on a pool thread.
ModuleFrame == Frame("<module>", 5, UserFile)

LoopBootFrames ==
    << ModuleFrame,
       Frame("run", 60, <<"asyncio", "runners.py">>),
       Frame("_run_once", 30, <<"asyncio", "base_events.py">>),
       Frame("_run", 70, <<"asyncio", "events.py">>) >>

WorkerBootFrames ==
    << Frame("_bootstrap", 40, <<"threading.py">>),
       Frame("run", 50, <<"concurrent", "futures", "thread.py">>) >>

SeqsUpTo(S, n) == UNION {[1..k -> S] : k \in 0..n}

\* The user-code part of a call stack at the moment it calls into the tracer,
\* outermost frame first. Either function can be the body of a coroutine or
\* callback; below it come calls of g, which f calls and which calls itself.
UserStacks ==
    {s \in SeqsUpTo(UserFrames, MaxStackLen) \ {<<>>} :
         \A i \in 2..Len(s) : s[i].name = "g"}

\* Names of the callables handed to run_in_executor.
FuncNames == {"work"}

MainThread == "main"

\* Event loop objects; MainLoop is the loop that asyncio.run() makes.
MainLoop == "L1"
Loops == {"L1", "L2"}
NoRunningLoop == "none"
Workers == {"W1", "W2"}

Tasks == 1..MaxTasks
TaskNames == <<"Task-1", "Task-2", "Task-3", "Task-4", "Task-5", "Task-6">>
TaskName(t) == TaskNames[t]

\* ---------------------------------------------------------- str.endswith
EndsWith(filename, suffix) ==
    /\ Len(suffix) <= Len(filename)
    /\ SubSeq(filename, Len(filename) - Len(suffix) + 1, Len(filename)) = suffix

EndsWithAny(filename, suffixes) ==
    \E sfx \in suffixes : EndsWith(filename, sfx)

Reverse(s) == [i \in 1..Len(s) |-> s[Len(s) + 1 - i]]

\* list.insert(0, x)
Insert0(s, x) == <<x>> \o s


\* ===================================================== _traced_create_task
\* traceback.extract_stack() inside _traced_create_task: the caller's stack
\* with the wrapper's own frame innermost.
ExtractStackInCreate(s) == s \o <<TracerFrame("_traced_create_task")>>

\* traceback.format_list: one text entry per frame (file, line, name).
FormatList(stk) ==
    [i \in 1..Len(stk) |-> <<stk[i].filename, stk[i].line, stk[i].name>>]

\* _capture_stack(skip): extract_stack() taken inside _capture_stack, without
\* its last `skip` frames, formatted.
CaptureStack(s, skip) ==
    LET full == s \o <<TracerFrame("_traced_create_task"),
                       TracerFrame("_capture_stack")>>
    IN  FormatList(SubSeq(full, 1, Len(full) - skip))

CreateSkipsName(frame) ==
    frame.name \in {"_traced_create_task", "_capture_stack"}

CreateKeepsFile(frame) ==
    ~EndsWithAny(frame.filename,
                 {<<"asyncio", "tasks.py">>, <<"asyncio", "base_events.py">>})

\* for frame in reversed(current_stack): ... call_trace.insert(0, {...})
RECURSIVE CreateCallTraceLoop(_, _, _)
CreateCallTraceLoop(current_stack, i, call_trace) ==
    IF i = 0 THEN call_trace
    ELSE LET frame == current_stack[i] IN
         IF CreateSkipsName(frame)
           THEN CreateCallTraceLoop(current_stack, i - 1, call_trace)
         ELSE IF CreateKeepsFile(frame)
           THEN CreateCallTraceLoop(current_stack, i - 1,
                    Insert0(call_trace,
                            Frame(frame.name, frame.line, frame.filename)))
         ELSE CreateCallTraceLoop(current_stack, i - 1, call_trace)

CreateCallTrace(current_stack) ==
    CreateCallTraceLoop(current_stack, Len(current_stack), <<>>)

\* {"parent": parent, "stack": stack, "call_trace": call_trace}
CreationRecord(parent, stack, call_trace) ==
    [parent |-> parent, stack |-> stack, call_trace |-> call_trace]

\* d[k] = v
DictSet(d, k, v) == [x \in DOMAIN d \cup {k} |-> IF x = k THEN v ELSE d[x]]

\* d.pop(k, None)
DictPop(d, k) == [x \in DOMAIN d \ {k} |-> d[x]]

\* (variant: one record object shared by every entry of the registry)
RecordCreationShared(reg, task, rec) == [x \in DOMAIN reg \cup {task} |-> rec]

\* _task_parents[task] = {...}
\* (variant: the record is not written by the creating call)
RecordCreationSkipped(reg, task, rec) == reg

\* (variant: the new task is recorded as its own parent)
RecordCreationSelfParent(reg, task, rec) ==
    DictSet(reg, task, [rec EXCEPT !.parent = task])

RecordCreation(reg, task, rec) == DictSet(reg, task, rec)

\* ============================================ _traced_run_in_executor
ExtractStackInWrapper(s) == s \o <<TracerFrame("wrapper")>>

WrapperSkipsName(frame) ==
    frame.name \in {"wrapper", "_traced_run_in_executor", "_capture_stack"}

WrapperKeepsFile(frame) ==
    ~EndsWithAny(frame.filename,
                 {<<"asyncio", "tasks.py">>, <<"asyncio", "base_events.py">>,
                  <<"asyncio", "events.py">>})

RECURSIVE WrapperCallTraceLoop(_, _, _)
WrapperCallTraceLoop(current_stack, i, call_trace) ==
    IF i = 0 THEN call_trace
    ELSE LET frame == current_stack[i] IN
         IF WrapperSkipsName(frame)
           THEN WrapperCallTraceLoop(current_stack, i - 1, call_trace)
         ELSE IF WrapperKeepsFile(frame)
           THEN WrapperCallTraceLoop(current_stack, i - 1,
                    Insert0(call_trace,
                            Frame(frame.name, frame.line, frame.filename)))
         ELSE WrapperCallTraceLoop(current_stack, i - 1, call_trace)

WrapperCallTrace(current_stack) ==
    WrapperCallTraceLoop(current_stack, Len(current_stack), <<>>)

\* executor_info = {"parent": ..., "call_trace": ..., "func_name": ...}
ExecutorInfo(parent, call_trace, func_name) ==
    [parent |-> parent, call_trace |-> call_trace, func_name |-> func_name]

\* traced_func, up to the call of func: _executor_contexts[thread_id] = info
\* (variant: the record is stored under one key for every thread)
TracedFuncEnterSharedKey(ctxs, thread_id, executor_info) ==
    DictSet(ctxs, "W1", executor_info)

TracedFuncEnter(ctxs, thread_id, executor_info) ==
    DictSet(ctxs, thread_id, executor_info)

\* (variant: the record is dropped after the call, not in a finally clause)
TracedFuncPopOnReturn(ctxs, thread_id, outcome) ==
    IF outcome = "returned" THEN DictPop(ctxs, thread_id) ELSE ctxs

\* traced_func, the finally clause: it runs whether func returned or raised.
TracedFuncFinally(ctxs, thread_id, outcome) == DictPop(ctxs, thread_id)


\* ================================================== collect_async_trace
\* _task_parents.get(task, {}) followed by .get("parent"),
\* .get("call_trace", []) and .get("stack", [])
TaskInfoGet(reg, task) ==
    IF task \in DOMAIN reg THEN reg[task]
    ELSE [parent |-> None, stack |-> <<>>, call_trace |-> <<>>]

\* _executor_contexts.get(thread_id); the absent value has the fields' defaults
NoExecutorInfo == [parent |-> None, call_trace |-> <<>>, func_name |-> ""]

ExecutorInfoGet(ctxs, thread_id) ==
    IF thread_id \in DOMAIN ctxs THEN ctxs[thread_id] ELSE NoExecutorInfo

\* (variant: the record is taken out of the dict, as dict.pop does)
ContextsAfterPop(ctxs, thread_id) == DictPop(ctxs, thread_id)

\* dict.get reads the dict and leaves it as it is
ContextsAfterGet(ctxs, thread_id) == ctxs

InExecutor(ctxs, thread_id) == thread_id \in DOMAIN ctxs

\* (variant: the RuntimeError is not caught)
CurrentTaskUnguarded(cur) == cur

\* try: current_task = asyncio.current_task() / except RuntimeError: None
\* `cur` is the outcome of asyncio.current_task(): it raises when the calling
\* thread has no running loop.
CurrentTaskOrNone(cur) ==
    IF cur.raises THEN [raises |-> FALSE, task |-> None] ELSE cur

\* (variant: the dispatch record is not consulted)
ResolveCurrentTaskOnLoopOnly(in_executor, executor_info, cur) ==
    CurrentTaskOrNone(cur)

ResolveCurrentTask(in_executor, executor_info, cur) ==
    IF in_executor
      THEN [raises |-> FALSE, task |-> executor_info.parent]
      ELSE CurrentTaskOrNone(cur)

\* (variant: every entry of the chain is marked as the current task)
TaskDataAllCurrent(reg, task, current_task) ==
    LET task_info == TaskInfoGet(reg, task) IN
    [task           |-> task,
     name           |-> TaskName(task),
     is_current     |-> TRUE,
     parent         |-> task_info.parent,
     call_trace     |-> task_info.call_trace,
     creation_stack |-> task_info.stack]

TaskData(reg, task, current_task) ==
    LET task_info == TaskInfoGet(reg, task) IN
    [task           |-> task,
     name           |-> TaskName(task),
     is_current     |-> (task = current_task),
     parent         |-> task_info.parent,
     call_trace     |-> task_info.call_trace,
     creation_stack |-> task_info.stack]

\* while task and task not in visited_tasks: ... task_chain.insert(0, ...)
RECURSIVE WalkLoop(_, _, _, _, _)
WalkLoop(reg, task, current_task, visited_tasks, task_chain) ==
    IF task = None \/ task \in visited_tasks THEN task_chain
    ELSE WalkLoop(reg, TaskInfoGet(reg, task).parent, current_task,
                  visited_tasks \cup {task},
                  Insert0(task_chain, TaskData(reg, task, current_task)))

TaskChain(reg, current_task) ==
    WalkLoop(reg, current_task, current_task, {}, <<>>)

\* ---- the live stack of an executor thread
ExecutorSkipsName(frame) ==
    frame.name \in {"collect_async_trace", "print_async_trace", "print_trace",
                    "traced_func", "wrapper", "_traced_run_in_executor"}

ExecutorKeepsFile(frame) ==
    ~EndsWithAny(frame.filename,
                 {<<"tracer.py">>, <<"asyncio", "tasks.py">>,
                  <<"asyncio", "base_events.py">>,
                  <<"concurrent", "futures", "thread.py">>,
                  <<"threading.py">>})

ExecutorKeeps(frame) == ~ExecutorSkipsName(frame) /\ ExecutorKeepsFile(frame)

ExecutorCurrentStack(stack_frames) ==
    LET kept == SelectSeq(stack_frames, ExecutorKeeps)
    IN  [i \in 1..Len(kept) |->
            Frame(kept[i].name, kept[i].line, kept[i].filename)]

\* ---- the live stack of a task: what follows the task's creation frames
FrameMatches(frame, trace_frame) ==
    frame.name = trace_frame.name /\ frame.line = trace_frame.line

\* (variant: only the last entry of the creation trace is looked for)
CreationFrameIndicesLastEntry(stack_frames, call_trace) ==
    IF call_trace # <<>>
      THEN {i \in 1..Len(stack_frames) :
               FrameMatches(stack_frames[i], call_trace[Len(call_trace)])}
      ELSE {}

\* Indices are 1-based here; the code's -1 (nothing matched) is 0.
CreationFrameIndices(stack_frames, call_trace) ==
    IF call_trace # <<>>
      THEN {i \in 1..Len(stack_frames) :
               \E j \in 1..Len(call_trace) :
                   FrameMatches(stack_frames[i], call_trace[j])}
      ELSE {}

SetMax(S) == CHOOSE x \in S : \A y \in S : y <= x

\* (variant: the first matching index is taken)
MinCreationIdx(stack_frames, call_trace) ==
    LET creation_frame_indices == CreationFrameIndices(stack_frames, call_trace)
    IN  IF creation_frame_indices # {}
          THEN CHOOSE x \in creation_frame_indices :
                   \A y \in creation_frame_indices : x <= y
        ELSE 0

MaxCreationIdx(stack_frames, call_trace) ==
    LET creation_frame_indices == CreationFrameIndices(stack_frames, call_trace)
    IN  IF creation_frame_indices # {} THEN SetMax(creation_frame_indices)
        ELSE 0

TaskSkipsName(frame) ==
    frame.name \in {"collect_async_trace", "print_async_trace", "print_trace"}

TaskKeepsFile(frame) ==
    ~EndsWithAny(frame.filename,
                 {<<"tracer.py">>, <<"asyncio", "tasks.py">>,
                  <<"asyncio", "base_events.py">>})

RECURSIVE TaskCurrentStackLoop(_, _, _, _)
TaskCurrentStackLoop(stack_frames, i, max_creation_idx, current_stack) ==
    IF i > Len(stack_frames) THEN current_stack
    ELSE LET frame == stack_frames[i] IN
         IF i <= max_creation_idx
           THEN TaskCurrentStackLoop(stack_frames, i + 1, max_creation_idx,
                                     current_stack)
         ELSE IF TaskSkipsName(frame)
           THEN TaskCurrentStackLoop(stack_frames, i + 1, max_creation_idx,
                                     current_stack)
         ELSE IF TaskKeepsFile(frame)
           THEN TaskCurrentStackLoop(stack_frames, i + 1, max_creation_idx,
                    Append(current_stack,
                           Frame(frame.name, frame.line, frame.filename)))
         ELSE TaskCurrentStackLoop(stack_frames, i + 1, max_creation_idx,
                                   current_stack)

TaskCurrentStack(reg, current_task, stack_frames) ==
    LET call_trace == TaskInfoGet(reg, current_task).call_trace
    IN  TaskCurrentStackLoop(stack_frames, 1,
                             MaxCreationIdx(stack_frames, call_trace), <<>>)

CurrentStack(reg, in_executor, current_task, stack_frames) ==
    IF in_executor THEN ExecutorCurrentStack(stack_frames)
    ELSE TaskCurrentStack(reg, current_task, stack_frames)


\* ---- flattening: `acc` is the pair of the locals `frames` and `indent`
AssembledFrame(name, line, filename, indent, task, is_executor) ==
    [name |-> name, line |-> line, filename |-> filename, indent |-> indent,
     task |-> task, is_executor |-> is_executor]

\* frames.append({... "indent": indent ...}); indent += 1
Emit(acc, name, line, filename, task, is_executor) ==
    [frames |-> Append(acc.frames,
                       AssembledFrame(name, line, filename, acc.indent, task,
                                      is_executor)),
     indent |-> acc.indent + 1]

\* (variant: the frame of a root task does not carry the task)
RootFrameUntagged(acc, task_data) ==
    Emit(acc, task_data.name, None, NoFile, None, FALSE)

\* the frame of a task without call trace
RootFrame(acc, task_data) ==
    Emit(acc, task_data.name, None, NoFile, task_data.task, FALSE)

\* the last call-trace entry of a task: the task creation point
BoundaryFrame(acc, trace_frame, task_data) ==
    Emit(acc, trace_frame.name, trace_frame.line, trace_frame.filename,
         task_data.task, FALSE)

\* any other call-trace entry, and any live-stack frame
PlainFrame(acc, trace_frame) ==
    Emit(acc, trace_frame.name, trace_frame.line, trace_frame.filename,
         None, FALSE)

\* (variant: the outermost entry is taken for the boundary)
IsExecutorBoundaryFirst(trace_frame, executor_call_trace) ==
    trace_frame = executor_call_trace[1]

\* is_executor_boundary = trace_frame == executor_call_trace[-1]
IsExecutorBoundary(trace_frame, executor_call_trace) ==
    trace_frame = executor_call_trace[Len(executor_call_trace)]

RECURSIVE ExecutorFramesLoop(_, _, _)
ExecutorFramesLoop(acc, executor_call_trace, i) ==
    IF i > Len(executor_call_trace) THEN acc
    ELSE LET trace_frame == executor_call_trace[i] IN
         ExecutorFramesLoop(
             Emit(acc, trace_frame.name, trace_frame.line,
                  trace_frame.filename, None,
                  IsExecutorBoundary(trace_frame, executor_call_trace)),
             executor_call_trace, i + 1)

RECURSIVE StackFramesLoop(_, _, _)
StackFramesLoop(acc, current_stack, i) ==
    IF i > Len(current_stack) THEN acc
    ELSE StackFramesLoop(PlainFrame(acc, current_stack[i]), current_stack,
                         i + 1)

\* (variant: the live stack is put before the dispatch-time call trace)
AfterBoundaryStackFirst(acc, is_current, in_executor, executor_info, current_stack) ==
    IF is_current /\ in_executor
      THEN ExecutorFramesLoop(StackFramesLoop(acc, current_stack, 1),
                              executor_info.call_trace, 1)
    ELSE IF is_current
      THEN StackFramesLoop(acc, current_stack, 1)
    ELSE acc

\* what follows the boundary frame of a task: for the current task the
\* dispatch-time call trace (in an executor) and the live stack
AfterBoundary(acc, is_current, in_executor, executor_info, current_stack) ==
    IF is_current /\ in_executor
      THEN StackFramesLoop(
               ExecutorFramesLoop(acc, executor_info.call_trace, 1),
               current_stack, 1)
    ELSE IF is_current
      THEN StackFramesLoop(acc, current_stack, 1)
    ELSE acc

\* (variant: the 0-based index compared with the length)
IsLastOffByOne(j, call_trace) == j = Len(call_trace) + 1

\* j == len(call_trace) - 1
IsLast(j, call_trace) == j = Len(call_trace)

RECURSIVE CallTraceLoop(_, _, _, _, _, _)
CallTraceLoop(acc, task_data, j, in_executor, executor_info, current_stack) ==
    LET call_trace == task_data.call_trace IN
    IF j > Len(call_trace) THEN acc
    ELSE IF IsLast(j, call_trace)
      THEN CallTraceLoop(
               AfterBoundary(BoundaryFrame(acc, call_trace[j], task_data),
                             task_data.is_current, in_executor, executor_info,
                             current_stack),
               task_data, j + 1, in_executor, executor_info, current_stack)
    ELSE CallTraceLoop(PlainFrame(acc, call_trace[j]), task_data, j + 1,
                       in_executor, executor_info, current_stack)

FlattenTask(acc, task_data, in_executor, executor_info, current_stack) ==
    IF task_data.call_trace = <<>>
      THEN AfterBoundary(RootFrame(acc, task_data), task_data.is_current,
                         in_executor, executor_info, current_stack)
      ELSE CallTraceLoop(acc, task_data, 1, in_executor, executor_info,
                         current_stack)

RECURSIVE FlattenLoop(_, _, _, _, _, _)
FlattenLoop(acc, task_chain, k, in_executor, executor_info, current_stack) ==
    IF k > Len(task_chain) THEN acc
    ELSE FlattenLoop(
             FlattenTask(acc, task_chain[k], in_executor, executor_info,
                         current_stack),
             task_chain, k + 1, in_executor, executor_info, current_stack)

Flatten(task_chain, in_executor, executor_info, current_stack) ==
    FlattenLoop([frames |-> <<>>, indent |-> 0], task_chain, 1, in_executor,
                executor_info, current_stack).frames

\* max((f["indent"] for f in frames), default=0)
MaxIndent(frames) ==
    IF frames = <<>> THEN 0
    ELSE SetMax({frames[i].indent : i \in 1..Len(frames)})

\* (variant: the indents of the outer-to-inner order are kept)
KeepIndents(frames) == frames

\* frame["indent"] = max_indent - frame["indent"]
RecalculateIndents(frames) ==
    LET max_indent == MaxIndent(frames) IN
    [i \in 1..Len(frames) |->
        [frames[i] EXCEPT !.indent = max_indent - frames[i].indent]]

\* (variant: the list is not reversed)
KeepOrder(frames) == RecalculateIndents(frames)

\* frames.reverse(), then the indents of the reversed order
ReverseFrames(frames) == RecalculateIndents(Reverse(frames))

\* The value returned by collect_async_trace; `raised` is set when an
\* exception leaves the function instead.
CollectAsyncTrace(reg, ctxs, thread_id, cur, stack_frames) ==
    LET executor_info == ExecutorInfoGet(ctxs, thread_id)
        in_executor   == InExecutor(ctxs, thread_id)
        resolved      == ResolveCurrentTask(in_executor, executor_info, cur)
        current_task  == resolved.task
        task_chain    == TaskChain(reg, current_task)
        current_stack == CurrentStack(reg, in_executor, current_task,
                                      stack_frames)
    IN  IF resolved.raises
          THEN [frames |-> <<>>, current_task |-> None,
                in_executor |-> FALSE, raised |-> TRUE]
          ELSE [frames |-> ReverseFrames(Flatten(task_chain, in_executor,
                                                 executor_info, current_stack)),
                current_task |-> current_task,
                in_executor |-> in_executor,
                raised |-> FALSE]



\* ============================================================== patching
\* A loop's run_in_executor attribute is the number of tracing wrappers
\* stacked on the loop's own method: 0 is the original bound method, and
\* _traced_run_in_executor(original) is one more than `original`.
TracedRunInExecutor(original) == original + 1

\* A pair of _patched_loops and the run_in_executor attributes of the loops.
Patching(pl, rie) == [patched_loops |-> pl, run_in_executor |-> rie]

\* _patch_event_loop(loop)
PatchEventLoop(p, loop) ==
    IF loop \notin DOMAIN p.patched_loops
      THEN LET original == p.run_in_executor[loop]
           IN  Patching(
                   [l \in DOMAIN p.patched_loops \cup {loop} |->
                        IF l = loop THEN original ELSE p.patched_loops[l]],
                   [p.run_in_executor EXCEPT
                        ![loop] = TracedRunInExecutor(original)])
      ELSE p

\* _unpatch_event_loop(loop)
UnpatchEventLoop(p, loop) ==
    IF loop \in DOMAIN p.patched_loops
      THEN Patching(
               [l \in DOMAIN p.patched_loops \ {loop} |-> p.patched_loops[l]],
               [p.run_in_executor EXCEPT ![loop] = p.patched_loops[loop]])
      ELSE p

\* try: loop = asyncio.get_running_loop(); _patch_event_loop(loop)
\* except RuntimeError: pass
PatchRunningLoop(p, cur) ==
    IF cur.raises THEN p ELSE PatchEventLoop(p, cur.loop)

\* try: loop = asyncio.get_running_loop(); _unpatch_event_loop(loop)
\* except RuntimeError: pass
UnpatchRunningLoop(p, cur) ==
    IF cur.raises THEN p ELSE UnpatchEventLoop(p, cur.loop)

\* _patched_loops.clear()
ClearPatchedLoops(p) == Patching([l \in {} |-> 0], p.run_in_executor)

\* The start of collect_async_trace: the running loop is patched when tracing
\* is enabled and the loop's id is not in _patched_loops.
PatchOnCollect(p, enabled, cur) ==
    IF cur.raises THEN p
    ELSE IF enabled /\ cur.loop \notin DOMAIN p.patched_loops
           THEN PatchEventLoop(p, cur.loop)
           ELSE p

\* The three attributes of the asyncio package that enable_tracing replaces.
OriginalApi ==
    [create_task |-> "original", get_event_loop |-> "original",
     new_event_loop |-> "original"]

TracedApi ==
    [create_task |-> "traced", get_event_loop |-> "traced",
     new_event_loop |-> "traced"]

\* _orig_create_task, _orig_get_event_loop, _orig_new_event_loop at import
NoOrigApi ==
    [create_task |-> "None", get_event_loop |-> "None",
     new_event_loop |-> "None"]

\* disable_tracing: create_task is restored as saved, the loop getters are
\* restored when the saved value is not None
RestoredApi(api, orig) ==
    [create_task    |-> orig.create_task,
     get_event_loop |-> IF orig.get_event_loop # "None"
                          THEN orig.get_event_loop ELSE api.get_event_loop,
     new_event_loop |-> IF orig.new_event_loop # "None"
                          THEN orig.new_event_loop ELSE api.new_event_loop]

\* The module's patching state: _tracing_enabled, the asyncio attributes, the
\* saved originals, and _patched_loops with the loops' run_in_executor.
Tracer(enabled, api, orig, p) ==
    [enabled |-> enabled, api |-> api, orig |-> orig, p |-> p]

\* The state when tracer.py has been executed: lines 27-31.
ImportedTracer ==
    Tracer(FALSE, OriginalApi, NoOrigApi,
           Patching([l \in {} |-> 0], [l \in {} |-> 0]))

\* enable_tracing(), called where asyncio.current_task() would give `cur`
EnableTracingOn(tr, cur) ==
    IF tr.enabled THEN tr
    ELSE Tracer(TRUE, TracedApi, tr.api, PatchRunningLoop(tr.p, cur))

\* disable_tracing(), called where asyncio.current_task() would give `cur`
DisableTracingOn(tr, cur) ==
    IF ~tr.enabled THEN tr
    ELSE Tracer(FALSE, RestoredApi(tr.api, tr.orig), tr.orig,
                ClearPatchedLoops(UnpatchRunningLoop(tr.p, cur)))

\* _traced_get_event_loop and _traced_new_event_loop, after the original
\* function has returned `loop`: if loop and _tracing_enabled
PatchReturnedLoop(tr, loop) ==
    IF tr.enabled THEN [tr EXCEPT !.p = PatchEventLoop(tr.p, loop)] ELSE tr

\* ================================================================ state
VARIABLES
    tracing_enabled,    \* _tracing_enabled
    asyncio_api,        \* asyncio.create_task, .get_event_loop, .new_event_loop
    orig_api,           \* _orig_create_task, _orig_get_event_loop, ..._new_...
    patched_loops,      \* _patched_loops: loop -> its saved run_in_executor
    run_in_executor,    \* loop -> the loop's run_in_executor attribute, for
                        \* the loops made so far
    walk,               \* the locals of the lineage walk of
                        \* collect_async_trace while it runs step by step
    task_parents,       \* _task_parents: task -> creation record
    executor_contexts,  \* _executor_contexts: thread id -> executor_info
    ntasks,             \* the tasks created so far are 1..ntasks
    ndispatch,          \* the number of run_in_executor calls made so far
    pending,            \* traced_func closures queued in the thread pool
    wjob,               \* worker thread -> the closure whose func it is running
                        \* (with, as history, the dispatching task, the
                        \* callable and the frame that made the call)
    created_by,         \* history: task -> the task that was running, and the
                        \* caller's stack, when create_task was called for it
    last                \* history: the call that has just returned, and
                        \* whether it repeats the call before it

vars == <<tracing_enabled, asyncio_api, orig_api, patched_loops,
          run_in_executor, walk, task_parents, executor_contexts, ntasks, ndispatch,
          pending, wjob, created_by, last>>

patch_vars ==
    <<tracing_enabled, asyncio_api, orig_api, patched_loops, run_in_executor>>

NoWalk ==
    [pc |-> "idle", current_task |-> None, task |-> None,
     visited_tasks |-> {}, task_chain |-> <<>>]

EmptyDict == [x \in {} |-> None]

\* The outcome of asyncio.current_task() on the calling thread: it raises
\* RuntimeError when the thread has no running loop, and otherwise returns the
\* task the loop is running, None inside a plain callback.
NoLoop == [raises |-> TRUE, task |-> None, loop |-> NoRunningLoop]
InLoop(l, t) == [raises |-> FALSE, task |-> t, loop |-> l]
LoopContexts == {InLoop(l, t) : l \in DOMAIN run_in_executor, t \in 0..ntasks}

\* The stack of the code that calls into the tracer on the main thread.
MainStack(cur, s) ==
    IF cur.raises THEN <<ModuleFrame>> \o s ELSE LoopBootFrames \o s

NoResult ==
    [frames |-> <<>>, current_task |-> None, in_executor |-> FALSE,
     raised |-> FALSE]

NoLast ==
    [op |-> "none", thread |-> MainThread, cur |-> NoLoop, stack |-> <<>>,
     again |-> FALSE, outcome |-> "", result |-> NoResult]

TracerNow ==
    Tracer(tracing_enabled, asyncio_api, orig_api,
           Patching(patched_loops, run_in_executor))

SetTracer(tr) ==
    /\ tracing_enabled' = tr.enabled
    /\ asyncio_api' = tr.api
    /\ orig_api' = tr.orig
    /\ patched_loops' = tr.p.patched_loops
    /\ run_in_executor' = tr.p.run_in_executor

\* The package is imported: async_trace/__init__.py ends with enable_tracing()
Init ==
    /\ LET tr == EnableTracingOn(ImportedTracer, NoLoop)
       IN  /\ tracing_enabled = tr.enabled
           /\ asyncio_api = tr.api
           /\ orig_api = tr.orig
           /\ patched_loops = tr.p.patched_loops
           /\ run_in_executor = tr.p.run_in_executor
    /\ walk = NoWalk
    /\ task_parents = EmptyDict
    /\ executor_contexts = EmptyDict
    /\ ntasks = 0
    /\ ndispatch = 0
    /\ pending = <<>>
    /\ wjob = EmptyDict
    /\ created_by = EmptyDict
    /\ last = NoLast

\* loop.create_task(): a task made without the traced asyncio.create_task
\* (the main task of asyncio.run, the tasks of gather and ensure_future)
LoopCreateTask ==
    /\ DOMAIN run_in_executor # {}
    /\ ntasks' = ntasks + 1
    /\ UNCHANGED walk
    /\ last' = NoLast
    /\ UNCHANGED <<task_parents, executor_contexts, ndispatch, pending, wjob,
                   created_by>>
    /\ UNCHANGED patch_vars

\* _traced_create_task, called on the loop thread while the loop runs `cur`,
\* by user code whose stack is s
TracedCreateTask(cur, s) ==
    /\ asyncio_api.create_task = "traced"
    /\ ~cur.raises
    /\ LET parent     == cur.task
           stack      == CaptureStack(MainStack(cur, s), 2)
           call_trace == CreateCallTrace(ExtractStackInCreate(MainStack(cur, s)))
           task       == ntasks + 1
       IN  /\ ntasks' = task
           /\ task_parents' =
                  RecordCreation(task_parents, task,
                                 CreationRecord(parent, stack, call_trace))
           /\ created_by' =
                  DictSet(created_by, task,
                          [task |-> cur.task, stack |-> MainStack(cur, s)])
    /\ UNCHANGED walk
    /\ last' = [NoLast EXCEPT !.op = "create", !.cur = cur, !.stack = s]
    /\ UNCHANGED <<executor_contexts, ndispatch, pending, wjob>>
    /\ UNCHANGED patch_vars

\* wrapper(executor, func, *args), called on the loop thread while the loop
\* runs `cur`, by user code whose stack is s: it builds executor_info and hands
\* traced_func to the pool. On a loop that carries several wrappers the inner
\* ones see the same caller stack and their record is overwritten by the
\* outermost traced_func before func runs, so the record func runs under is
\* the one built here.
RunInExecutor(cur, s, func) ==
    /\ ~cur.raises
    /\ run_in_executor[cur.loop] >= 1
    /\ LET parent     == cur.task
           call_trace == WrapperCallTrace(ExtractStackInWrapper(MainStack(cur, s)))
       IN  pending' = Append(pending,
                             [info |-> ExecutorInfo(parent, call_trace, func),
                              func |-> func,
                              task |-> cur.task,
                              site |-> s[Len(s)]])
    /\ ndispatch' = ndispatch + 1
    /\ UNCHANGED walk
    /\ last' = NoLast
    /\ UNCHANGED <<task_parents, executor_contexts, ntasks, wjob, created_by>>
    /\ UNCHANGED patch_vars

\* an idle pool thread takes the next closure: traced_func up to func(...)
TracedFuncStart(w) ==
    /\ w \notin DOMAIN wjob
    /\ pending # <<>>
    /\ wjob' = DictSet(wjob, w, Head(pending))
    /\ pending' = Tail(pending)
    /\ executor_contexts' =
           TracedFuncEnter(executor_contexts, w, Head(pending).info)
    /\ UNCHANGED walk
    /\ last' = NoLast
    /\ UNCHANGED <<task_parents, ntasks, ndispatch, created_by>>
    /\ UNCHANGED patch_vars

\* func returns or raises, and the finally clause of traced_func runs
TracedFuncEnd(w, outcome) ==
    /\ w \in DOMAIN wjob
    /\ wjob' = DictPop(wjob, w)
    /\ executor_contexts' = TracedFuncFinally(executor_contexts, w, outcome)
    /\ UNCHANGED walk
    /\ last' = [NoLast EXCEPT !.op = "end", !.thread = w, !.outcome = outcome]
    /\ UNCHANGED <<task_parents, ntasks, ndispatch, pending, created_by>>
    /\ UNCHANGED patch_vars

\* asyncio.run(): the runner makes its loop with events.new_event_loop(), not
\* through the asyncio.new_event_loop attribute
AsyncioRun(l) ==
    /\ l \notin DOMAIN run_in_executor
    /\ run_in_executor' =
           [x \in DOMAIN run_in_executor \cup {l} |->
                IF x = l THEN 0 ELSE run_in_executor[x]]
    /\ UNCHANGED walk
    /\ last' = [NoLast EXCEPT !.op = "run"]
    /\ UNCHANGED <<tracing_enabled, asyncio_api, orig_api, patched_loops>>
    /\ UNCHANGED <<task_parents, executor_contexts, ntasks, ndispatch, pending,
                   wjob, created_by>>

\* asyncio.new_event_loop() while the attribute is _traced_new_event_loop
TracedNewEventLoop(l) ==
    /\ asyncio_api.new_event_loop = "traced"
    /\ l \notin DOMAIN run_in_executor
    /\ LET made == [x \in DOMAIN run_in_executor \cup {l} |->
                        IF x = l THEN 0 ELSE run_in_executor[x]]
       IN  SetTracer(PatchReturnedLoop(
               [TracerNow EXCEPT !.p = Patching(patched_loops, made)], l))
    /\ UNCHANGED walk
    /\ last' = [NoLast EXCEPT !.op = "new_event_loop"]
    /\ UNCHANGED <<task_parents, executor_contexts, ntasks, ndispatch, pending,
                   wjob, created_by>>

\* asyncio.get_event_loop() while the attribute is _traced_get_event_loop, on
\* a thread whose current loop is l
TracedGetEventLoop(l) ==
    /\ asyncio_api.get_event_loop = "traced"
    /\ l \in DOMAIN run_in_executor
    /\ SetTracer(PatchReturnedLoop(TracerNow, l))
    /\ UNCHANGED walk
    /\ last' = [NoLast EXCEPT !.op = "get_event_loop"]
    /\ UNCHANGED <<task_parents, executor_contexts, ntasks, ndispatch, pending,
                   wjob, created_by>>

\* enable_tracing()
EnableTracing(cur) ==
    /\ SetTracer(EnableTracingOn(TracerNow, cur))
    /\ UNCHANGED walk
    /\ last' = [NoLast EXCEPT !.op = "enable", !.cur = cur]
    /\ UNCHANGED <<task_parents, executor_contexts, ntasks, ndispatch, pending,
                   wjob, created_by>>

\* (variant: the registry is emptied when tracing is switched off)
RegistryClearedOnDisable(reg) == [t \in {} |-> None]

\* disable_tracing() does not touch _task_parents
RegistryAfterDisable(reg) == reg

\* disable_tracing()
DisableTracing(cur) ==
    /\ SetTracer(DisableTracingOn(TracerNow, cur))
    /\ task_parents' = RegistryAfterDisable(task_parents)
    /\ UNCHANGED walk
    /\ last' = [NoLast EXCEPT !.op = "disable", !.cur = cur]
    /\ UNCHANGED <<executor_contexts, ntasks, ndispatch, pending, wjob,
                   created_by>>

\* traceback.extract_stack() inside collect_async_trace on thread th, whose
\* user code has stack s and calls print_trace()
CollectTail ==
    <<TracerFrame("print_trace"), TracerFrame("collect_async_trace")>>

ExtractStackInCollect(th, cur, s) ==
    IF th = MainThread THEN MainStack(cur, s) \o CollectTail
    ELSE WorkerBootFrames \o <<TracerFrame("traced_func")>> \o s
             \o CollectTail

\* collect_async_trace() called on thread th: on the main thread, or on a
\* pool thread by the callable it is running
Collect(th, cur, s) ==
    /\ th # MainThread => th \in DOMAIN wjob /\ cur = NoLoop
    /\ LET result == CollectAsyncTrace(task_parents, executor_contexts, th, cur,
                         ExtractStackInCollect(th, cur, s))
       IN  last' = [NoLast EXCEPT !.op = "collect", !.thread = th,
                                  !.cur = cur, !.stack = s,
                                  !.again = (last.op = "collect"),
                                  !.result = result]
    /\ executor_contexts' = ContextsAfterGet(executor_contexts, th)
    /\ SetTracer([TracerNow EXCEPT
                     !.p = PatchOnCollect(@, tracing_enabled, cur)])
    /\ UNCHANGED walk
    /\ UNCHANGED <<task_parents, ntasks, ndispatch, pending, wjob, created_by>>

\* ------------------------------------------- the lineage walk, step by step
\* lines 270-272: task_chain = [], task = current_task, visited_tasks = set()
WalkStart(current_task) ==
    /\ walk.pc = "idle"
    /\ walk' = [pc |-> "loop", current_task |-> current_task,
                task |-> current_task, visited_tasks |-> {},
                task_chain |-> <<>>]
    /\ UNCHANGED <<task_parents, executor_contexts, ntasks, ndispatch, pending,
                   wjob, created_by, last>>
    /\ UNCHANGED patch_vars

\* lines 274-291: one test of the while condition and, when it holds, one
\* pass through the body
WalkStep ==
    /\ walk.pc = "loop"
    /\ IF walk.task # None /\ walk.task \notin walk.visited_tasks
         THEN LET task_info == TaskInfoGet(task_parents, walk.task)
                  task_data == TaskData(task_parents, walk.task,
                                        walk.current_task)
              IN  walk' = [walk EXCEPT
                              !.task_chain = Insert0(@, task_data),
                              !.visited_tasks = @ \cup {walk.task},
                              !.task = task_info.parent]
         ELSE walk' = [walk EXCEPT !.pc = "done"]
    /\ UNCHANGED <<task_parents, executor_contexts, ntasks, ndispatch, pending,
                   wjob, created_by, last>>
    /\ UNCHANGED patch_vars

\* ------------------------------------------------------- specifications
\* A trace request that directly follows another one is the same request made
\* again from the same execution point: a different request returns what it
\* returns when made in the state before, which the model explores as well.
Again(th, cur, s) ==
    last.op = "collect" =>
        last.thread = th /\ last.cur = cur /\ last.stack = s

\* Task creation and trace requests on the loop thread.
NextLineage ==
    \/ AsyncioRun(MainLoop)
    \/ ntasks < MaxTasks /\ LoopCreateTask
    \/ \E cur \in LoopContexts, s \in UserStacks :
           ntasks < MaxTasks /\ TracedCreateTask(cur, s)
    \/ \E cur \in LoopContexts \cup {NoLoop}, s \in UserStacks :
           Again(MainThread, cur, s) /\ Collect(MainThread, cur, s)

SpecLineage == Init /\ [][NextLineage]_vars

\* Task creation, dispatch to pool threads, and trace requests made on a pool
\* thread by the callable it is running.
Next ==
    \/ AsyncioRun(MainLoop)
    \/ TracedGetEventLoop(MainLoop)
    \/ ntasks < MaxDispatchTasks /\ LoopCreateTask
    \/ \E cur \in LoopContexts, s \in UserStacks :
           ntasks < MaxDispatchTasks /\ TracedCreateTask(cur, s)
    \/ \E cur \in LoopContexts, s \in UserStacks, func \in FuncNames :
           ndispatch < MaxDispatches /\ RunInExecutor(cur, s, func)
    \/ \E w \in Workers : TracedFuncStart(w)
    \/ \E w \in Workers, outcome \in {"returned", "raised"} :
           TracedFuncEnd(w, outcome)
    \/ \E w \in Workers, s \in UserStacks :
           Again(w, NoLoop, s) /\ Collect(w, NoLoop, s)

Spec == Init /\ [][Next]_vars

\* Switching tracing on and off while loops are made and fetched, tasks are
\* created, work is dispatched and traces are requested. Loops are made in
\* the order L1, L2, and the code in this specification has one call stack.
PatchStacks == {<<Frame("f", 10, UserFile)>>}

MadeInOrder(l) == l = MainLoop \/ MainLoop \in DOMAIN run_in_executor

WrapsBounded == \A l \in DOMAIN run_in_executor' : run_in_executor'[l] <= MaxWraps

NextPatch ==
    \/ \E l \in Loops : MadeInOrder(l) /\ AsyncioRun(l)
    \/ \E l \in Loops : MadeInOrder(l) /\ TracedNewEventLoop(l)
    \/ \E l \in Loops : TracedGetEventLoop(l) /\ WrapsBounded
    \/ \E cur \in LoopContexts \cup {NoLoop} :
           cur.task = None /\ EnableTracing(cur) /\ WrapsBounded
    \/ \E cur \in LoopContexts \cup {NoLoop} :
           cur.task = None /\ DisableTracing(cur)
    \/ ntasks < MaxDispatchTasks /\ LoopCreateTask
    \/ \E cur \in LoopContexts, s \in PatchStacks :
           ntasks < MaxDispatchTasks /\ TracedCreateTask(cur, s)
    \/ \E cur \in LoopContexts, s \in PatchStacks, func \in FuncNames :
           ndispatch < MaxDispatches /\ RunInExecutor(cur, s, func)
    \/ \E w \in Workers : TracedFuncStart(w)
    \/ \E w \in Workers, outcome \in {"returned", "raised"} :
           TracedFuncEnd(w, outcome)
    \/ \E cur \in LoopContexts \cup {NoLoop}, s \in PatchStacks :
           /\ Again(MainThread, cur, s)
           /\ Collect(MainThread, cur, s)
           /\ WrapsBounded
    \/ \E w \in Workers, s \in PatchStacks :
           Again(w, NoLoop, s) /\ Collect(w, NoLoop, s)

SpecPatch == Init /\ [][NextPatch]_vars

\* Dispatches that run side by side on the pool threads, and pool threads
\* that take one dispatch after another; the dispatching code has one user
\* frame, f or g, and traces are requested by the dispatched callables.
PoolStacks == {<<fr>> : fr \in UserFrames}

NextPool ==
    \/ AsyncioRun(MainLoop)
    \/ TracedGetEventLoop(MainLoop)
    \/ ntasks < MaxDispatchTasks /\ LoopCreateTask
    \/ \E cur \in LoopContexts, s \in PoolStacks, func \in FuncNames :
           ndispatch < MaxPoolDispatches /\ RunInExecutor(cur, s, func)
    \/ \E w \in Workers : TracedFuncStart(w)
    \/ \E w \in Workers, outcome \in {"returned", "raised"} :
           TracedFuncEnd(w, outcome)
    \/ \E w \in Workers, s \in PoolStacks :
           Again(w, NoLoop, s) /\ Collect(w, NoLoop, s)

SpecPool == Init /\ [][NextPool]_vars

\* The lineage walk over any registry: every set of recorded tasks among
\* 1..MaxWalkTasks and every parent link, a task itself, a task without record
\* and links that close a cycle included. The walk is a loop of one thread, so
\* a pass that can be made is made.
WalkRecords ==
    {CreationRecord(parent, <<>>, <<Frame("f", 10, UserFile)>>) :
         parent \in 0..MaxWalkTasks}

WalkRegistries ==
    UNION {[recorded -> WalkRecords] : recorded \in SUBSET (1..MaxWalkTasks)}

InitWalk ==
    /\ LET tr == EnableTracingOn(ImportedTracer, NoLoop)
       IN  /\ tracing_enabled = tr.enabled
           /\ asyncio_api = tr.api
           /\ orig_api = tr.orig
           /\ patched_loops = tr.p.patched_loops
           /\ run_in_executor = [l \in {MainLoop} |-> 0]
    /\ walk = NoWalk
    /\ task_parents \in WalkRegistries
    /\ executor_contexts = EmptyDict
    /\ ntasks = MaxWalkTasks
    /\ ndispatch = 0
    /\ pending = <<>>
    /\ wjob = EmptyDict
    /\ created_by = EmptyDict
    /\ last = NoLast

NextWalk ==
    \/ \E current_task \in 0..MaxWalkTasks : WalkStart(current_task)
    \/ WalkStep

SpecWalk == InitWalk /\ [][NextWalk]_vars /\ WF_vars(WalkStep)


\* ================================================================ claims
Collected == last.op = "collect"
Result == last.result
Frames == last.result.frames

\* The trace request that has just returned was made on a pool thread inside
\* a callable that a task dispatched.
CollectedInDispatch ==
    /\ Collected
    /\ last.thread \in DOMAIN wjob
    /\ wjob[last.thread].task # None

BoundaryIndices == {i \in 1..Len(Frames) : Frames[i].task # None}

\* C1: once a callable run through the traced run_in_executor has returned or
\* raised, _executor_contexts holds no record for the thread that ran it.
C1_NoRecordAfterDispatch ==
    last.op = "end" => last.thread \notin DOMAIN executor_contexts

C1_Witness ==
    /\ last.op = "end"
    /\ last.outcome = "raised"
    /\ last.thread \notin DOMAIN executor_contexts

C3_BoundaryNamesCallable ==
    CollectedInDispatch =>
        \E i \in 1..Len(Frames) :
            /\ Frames[i].is_executor
            /\ Frames[i].name = wjob[last.thread].info.func_name

\* C3 as amended: a trace requested inside a dispatched callable contains an
\* is_executor frame whose name and line are those of the innermost entry of
\* the dispatch-time call trace, the frame that called run_in_executor.
C3_BoundaryNamesCallSite ==
    CollectedInDispatch =>
        LET call_trace == wjob[last.thread].info.call_trace IN
        /\ call_trace # <<>>
        /\ call_trace[Len(call_trace)] = wjob[last.thread].site
        /\ \E i \in 1..Len(Frames) :
               /\ Frames[i].is_executor
               /\ Frames[i].name = wjob[last.thread].site.name
               /\ Frames[i].line = wjob[last.thread].site.line
        /\ \A i \in 1..Len(Frames) :
               Frames[i].is_executor =>
                   /\ Frames[i].name = wjob[last.thread].site.name
                   /\ Frames[i].line = wjob[last.thread].site.line

C3_Witness ==
    /\ CollectedInDispatch
    /\ \E i \in 1..Len(Frames) :
           /\ Frames[i].is_executor
           /\ Frames[i].name = wjob[last.thread].site.name
           /\ Frames[i].name # wjob[last.thread].info.func_name

\* The frames of a caller's stack that belong to user code: those not in the
\* event loop's own files.
UserCodeFrames(stack) ==
    SelectSeq(stack,
              LAMBDA fr : fr.filename \notin {<<"asyncio", "tasks.py">>,
                                              <<"asyncio", "base_events.py">>})

\* C4: whatever the order in which tasks make their create_task calls, every
\* creation record names as parent the task that was running when the call
\* was made for that task and carries the call trace of that call.
C4_RecordsNotCrossWired ==
    /\ DOMAIN task_parents = DOMAIN created_by
    /\ \A t \in DOMAIN created_by :
           /\ task_parents[t].parent = created_by[t].task
           /\ task_parents[t].call_trace = UserCodeFrames(created_by[t].stack)
           /\ task_parents[t].stack = FormatList(created_by[t].stack)

C4_Witness ==
    \E a \in DOMAIN task_parents, b \in DOMAIN task_parents :
        /\ a < b
        /\ task_parents[a].parent # None
        /\ task_parents[b].parent # None
        /\ task_parents[a].parent # task_parents[b].parent
        /\ task_parents[a].call_trace # task_parents[b].call_trace
        /\ task_parents[a].parent = created_by[a].task
        /\ task_parents[b].parent = created_by[b].task


\* ---- the expected shape of a trace requested by a task on the loop thread
\* The trace request that has just returned was made by a running task.
CollectedInTask ==
    /\ Collected
    /\ last.thread = MainThread
    /\ last.cur.task # None

\* The task that was running when task t was created (None for a task that
\* was not created through the traced create_task).
ParentOf(t) == IF t \in DOMAIN created_by THEN created_by[t].task ELSE None

RECURSIVE Ancestors(_)
Ancestors(t) == IF t = None THEN {} ELSE {t} \cup Ancestors(ParentOf(t))

RECURSIVE RootOfChain(_)
RootOfChain(t) == IF ParentOf(t) = None THEN t ELSE RootOfChain(ParentOf(t))

Shape(fr) ==
    [name |-> fr.name, line |-> fr.line, filename |-> fr.filename,
     task |-> fr.task, is_executor |-> fr.is_executor]

PlainShape(fr) ==
    [name |-> fr.name, line |-> fr.line, filename |-> fr.filename,
     task |-> None, is_executor |-> FALSE]

RootShape(t) ==
    [name |-> TaskName(t), line |-> None, filename |-> NoFile, task |-> t,
     is_executor |-> FALSE]

\* The run of task t, read outward: its creation-boundary frame, then the
\* other entries of its creation trace from innermost to outermost; for a
\* task without creation record, its root-boundary frame.
RunOf(t) ==
    IF t \in DOMAIN task_parents /\ task_parents[t].call_trace # <<>>
      THEN LET ct == task_parents[t].call_trace
               n  == Len(ct)
           IN  <<[PlainShape(ct[n]) EXCEPT !.task = t]>>
                   \o [i \in 1..(n - 1) |-> PlainShape(ct[n - i])]
      ELSE <<RootShape(t)>>

RECURSIVE RunsFrom(_)
RunsFrom(t) == IF t = None THEN <<>> ELSE RunOf(t) \o RunsFrom(ParentOf(t))

\* The live-stack residue of the request that has just returned, read outward.
ResidueOutward ==
    LET residue == TaskCurrentStack(task_parents, last.cur.task,
                       ExtractStackInCollect(MainThread, last.cur, last.stack))
    IN  [i \in 1..Len(residue) |-> PlainShape(residue[Len(residue) + 1 - i])]

C6_OneBoundaryPerTask ==
    CollectedInTask =>
        /\ Cardinality(BoundaryIndices) = Cardinality(Ancestors(last.cur.task))
        /\ {Frames[i].task : i \in BoundaryIndices} = Ancestors(last.cur.task)

C6_Witness ==
    /\ CollectedInTask
    /\ Cardinality(Ancestors(last.cur.task)) = 3
    /\ Cardinality(BoundaryIndices) = 3
    /\ Len(Frames) > 3

C9_RootBoundaryFrame ==
    CollectedInTask =>
        \A t \in Ancestors(last.cur.task) :
            t \notin DOMAIN task_parents =>
                /\ \E i \in 1..Len(Frames) : Frames[i].task = t
                /\ \A i \in 1..Len(Frames) :
                       Frames[i].task = t => Shape(Frames[i]) = RootShape(t)

C9_Witness ==
    /\ CollectedInTask
    /\ last.cur.task \in DOMAIN task_parents
    /\ RootOfChain(last.cur.task) \notin DOMAIN task_parents
    /\ Shape(Frames[Len(Frames)]) = RootShape(RootOfChain(last.cur.task))

\* C10: a trace requested where no task is running, on a thread that is not
\* inside dispatched work, does not raise: it returns no frames, current_task
\* None and in_executor false.
C10_NoTaskNoFrames ==
    (/\ Collected
     /\ last.cur.task = None
     /\ last.thread \notin DOMAIN executor_contexts) =>
        Result = [frames |-> <<>>, current_task |-> None,
                  in_executor |-> FALSE, raised |-> FALSE]

C10_Witness ==
    /\ Collected
    /\ last.thread = MainThread
    /\ last.cur = NoLoop
    /\ DOMAIN task_parents # {}
    /\ DOMAIN task_parents # 1..ntasks
    /\ Frames = <<>>
    /\ ~Result.raised


C12_DisableRestoresAll ==
    last.op = "disable" =>
        /\ asyncio_api = OriginalApi
        /\ \A l \in DOMAIN run_in_executor : run_in_executor[l] = 0


\* C13: a trace collected on an executor thread (in_executor = true) returns
\* current_task = None.
C13_NoCurrentTaskInExecutor ==
    (Collected /\ Result.in_executor) => Result.current_task = None


\* C14: for any contents of the registry the lineage walk ends, and the chain
\* it leaves is ordered root-first (each entry is the recorded parent of the
\* next) with the start task last, holds no task twice, and marks is_current
\* on the start task only. It is the chain collect_async_trace works on.
WalkChainOk ==
    LET chain == walk.task_chain
        n     == Len(chain)
    IN  /\ chain = TaskChain(task_parents, walk.current_task)
        /\ walk.current_task = None => chain = <<>>
        /\ walk.current_task # None =>
               n >= 1 /\ chain[n].task = walk.current_task
        /\ \A i \in 1..(n - 1) :
               /\ chain[i + 1].task \in DOMAIN task_parents
               /\ task_parents[chain[i + 1].task].parent = chain[i].task
        /\ \A i \in 1..n : \A j \in 1..n :
               chain[i].task = chain[j].task => i = j
        /\ \A i \in 1..n : chain[i].is_current <=> i = n

C14_WalkTerminatesWithChain ==
    /\ (walk.pc = "loop") ~> (walk.pc = "done")
    /\ [](walk.pc = "done" => WalkChainOk)

C14_Witness ==
    /\ walk.pc = "done"
    /\ Len(walk.task_chain) = MaxWalkTasks
    /\ walk.task_chain[1].parent = walk.current_task
    /\ WalkChainOk


\* The tasks reached from task t by following at most k recorded parent links.
RECURSIVE ParentsWithin(_, _)
ParentsWithin(t, k) ==
    IF k = 0 \/ t \notin DOMAIN task_parents \/ task_parents[t].parent = None
      THEN {}
      ELSE {task_parents[t].parent}
               \cup ParentsWithin(task_parents[t].parent, k - 1)

\* C15: in every state reached through the traced create_task the recorded
\* parent links are acyclic: following them from a task never returns to that
\* task, because the parent of a record is a task made before the record's
\* task.
C15_ParentLinksAcyclic ==
    \A t \in DOMAIN task_parents :
        /\ task_parents[t].parent < t
        /\ t \notin ParentsWithin(t, ntasks)

C15_Witness ==
    \E t \in DOMAIN task_parents :
        /\ task_parents[t].parent \in DOMAIN task_parents
        /\ task_parents[task_parents[t].parent].parent # None
        /\ Cardinality(ParentsWithin(t, ntasks)) = 2


\* C16: however dispatches interleave on the pool threads, a thread that is
\* running a dispatched callable has in _executor_contexts the record of that
\* dispatch, an idle thread has none, and a trace requested by the callable
\* resolves to that record: its task is the dispatching task and its
\* is_executor frames are the frame that made that dispatch.
C16_OwnDispatchRecord ==
    /\ DOMAIN executor_contexts = DOMAIN wjob
    /\ \A w \in DOMAIN wjob : executor_contexts[w] = wjob[w].info
    /\ (Collected /\ last.thread \in DOMAIN wjob) =>
           /\ Result.in_executor
           /\ Result.current_task = wjob[last.thread].task
           /\ \A i \in 1..Len(Frames) :
                  Frames[i].is_executor =>
                      /\ Frames[i].name = wjob[last.thread].site.name
                      /\ Frames[i].line = wjob[last.thread].site.line

C16_Witness ==
    /\ Collected
    /\ DOMAIN wjob = Workers
    /\ \E w \in Workers :
           /\ w # last.thread
           /\ wjob[w].task # wjob[last.thread].task
           /\ wjob[w].site # wjob[last.thread].site
    /\ wjob[last.thread].task # None
    /\ Result.current_task = wjob[last.thread].task
    /\ \E i \in 1..Len(Frames) :
           /\ Frames[i].is_executor
           /\ Frames[i].name = wjob[last.thread].site.name


\* C17: a task made through the traced create_task has its creation record in
\* the registry from the state the creating call leaves, so before any step of
\* the task; a trace requested inside such a task finds the record: the frame
\* tagged with the task is its creation-boundary frame, with the line of the
\* creation site, and not a root-boundary frame.
C17_RecordBeforeFirstStep ==
    /\ DOMAIN created_by \subseteq DOMAIN task_parents
    /\ (CollectedInTask /\ last.cur.task \in DOMAIN created_by) =>
           LET B    == last.cur.task
               site == created_by[B].stack
           IN  /\ \E i \in BoundaryIndices : Frames[i].task = B
               /\ \A i \in BoundaryIndices :
                      Frames[i].task = B =>
                          /\ Frames[i].line = site[Len(site)].line
                          /\ Frames[i].name = site[Len(site)].name
                          /\ Shape(Frames[i]) # RootShape(B)

C17_Witness ==
    /\ CollectedInTask
    /\ last.cur.task = ntasks
    /\ last.cur.task \in DOMAIN created_by
    /\ created_by[last.cur.task].task # None
    /\ \E i \in BoundaryIndices :
           /\ Frames[i].task = last.cur.task
           /\ Frames[i].line # None


\* The trace request that has just returned was made inside a task that has a
\* creation record with a creation trace.
CollectedInRecordedTask ==
    /\ CollectedInTask
    /\ last.cur.task \in DOMAIN task_parents
    /\ task_parents[last.cur.task].call_trace # <<>>

\* The live stack that request saw, and the creation trace of its task.
LiveStack == ExtractStackInCollect(MainThread, last.cur, last.stack)
OwnCreationTrace == task_parents[last.cur.task].call_trace

\* The live-stack residue as the returned trace shows it: the frames inward of
\* the innermost task-tagged frame, here outermost first.
ShownResidue ==
    LET b == CHOOSE i \in BoundaryIndices : \A j \in BoundaryIndices : i <= j
    IN  [i \in 1..(b - 1) |-> PlainShape(Frames[b - i])]

\* What is shown of a live stack once everything at or before index k is
\* discarded.
ShownAfter(k) ==
    LET rest == SubSeq(LiveStack, k + 1, Len(LiveStack))
        kept == SelectSeq(rest, LAMBDA fr : ~TaskSkipsName(fr) /\ TaskKeepsFile(fr))
    IN  [i \in 1..Len(kept) |-> PlainShape(kept[i])]

\* The live-stack indices whose frame matches the last entry of the creation
\* trace, and those whose frame matches any of its entries.
LastEntryMatches ==
    {i \in 1..Len(LiveStack) :
        /\ LiveStack[i].name = OwnCreationTrace[Len(OwnCreationTrace)].name
        /\ LiveStack[i].line = OwnCreationTrace[Len(OwnCreationTrace)].line}

AnyEntryMatches ==
    {i \in 1..Len(LiveStack) :
        \E j \in 1..Len(OwnCreationTrace) :
            /\ LiveStack[i].name = OwnCreationTrace[j].name
            /\ LiveStack[i].line = OwnCreationTrace[j].line}

Highest(S) == IF S = {} THEN 0 ELSE CHOOSE x \in S : \A y \in S : y <= x

\* C18 (as stated): the residue is what follows the live frame that matches
\* the last, innermost entry of the task's creation trace; live frames that
\* match only earlier entries do not determine the cut.
C18_CutAtLastEntry ==
    CollectedInRecordedTask => ShownResidue = ShownAfter(Highest(LastEntryMatches))

\* C18 (amended): the residue is what follows the highest live-stack index
\* whose frame matches, by name and line, any entry of the task's creation
\* trace; when no live frame matches the last entry, the frames that match
\* earlier entries determine the cut.
C18_CutAtAnyEntry ==
    CollectedInRecordedTask => ShownResidue = ShownAfter(Highest(AnyEntryMatches))

C18_Witness ==
    /\ CollectedInRecordedTask
    /\ LastEntryMatches = {}
    /\ AnyEntryMatches # {}
    /\ ShownResidue # <<>>
    /\ Len(ShownResidue) < Len(ShownAfter(0))

\* C19: no frame of the live-stack residue of a trace requested inside a task
\* coincides, by name and line, with an entry of that task's creation trace.
C19_ResidueNotInCreationTrace ==
    CollectedInRecordedTask =>
        \A i \in 1..Len(ShownResidue) :
            \A j \in 1..Len(OwnCreationTrace) :
                ~(/\ ShownResidue[i].name = OwnCreationTrace[j].name
                  /\ ShownResidue[i].line = OwnCreationTrace[j].line)

C19_Witness ==
    /\ CollectedInRecordedTask
    /\ ShownResidue # <<>>
    /\ Cardinality(AnyEntryMatches) > 1
    /\ Highest(AnyEntryMatches) < Len(LiveStack) - 1


\* The trace request that has just returned found a dispatch record for its
\* thread.
CollectedInExecutor == Collected /\ Result.in_executor

\* The dispatch-time call trace of that record and the live frames of the
\* pool thread that the request keeps.
DispatchTrace == executor_contexts[last.thread].call_trace

WorkerLive ==
    ExecutorCurrentStack(
        ExtractStackInCollect(last.thread, last.cur, last.stack))

ExecutorIndices == {i \in 1..Len(Frames) : Frames[i].is_executor}

\* The frame right outward of the pool thread's live frames is the innermost
\* entry of the dispatch-time call trace and is marked is_executor; the frames
\* inward of it are the live frames; the frame right outward of the whole
\* dispatch-time call trace is the boundary frame of the dispatching task.
DispatchFrameInPlace ==
    LET n == Len(WorkerLive)
        m == Len(DispatchTrace)
    IN  /\ Len(Frames) > n + m
        /\ \A i \in 1..n :
               Shape(Frames[i]) = PlainShape(WorkerLive[n + 1 - i])
        /\ Shape(Frames[n + 1]) =
               [PlainShape(DispatchTrace[m]) EXCEPT !.is_executor = TRUE]
        /\ Frames[n + m + 1].task = Result.current_task
        /\ \A i \in (n + 1)..(n + m) : Frames[i].task = None

C20_WitnessNoTask ==
    /\ CollectedInExecutor
    /\ Result.current_task = None
    /\ DispatchTrace # <<>>
    /\ Frames = <<>>


\* A loop carries at most one tracing wrapper, and carries one exactly when
\* its id is in _patched_loops.
WrappedOnceIffPatched(pl, rie) ==
    \A l \in DOMAIN rie :
        /\ rie[l] <= 1
        /\ rie[l] >= 1 <=> l \in DOMAIN pl

\* C21: after any sequence of enable_tracing, disable_tracing, traced
\* get_event_loop / new_event_loop and collect_async_trace calls, no loop's
\* run_in_executor is a wrapper around a wrapper, and a loop's run_in_executor
\* is the tracing wrapper exactly when the loop's id is in _patched_loops.
C21_WrappedOnceIffPatched ==
    WrappedOnceIffPatched(patched_loops, run_in_executor)

\* The first part of C21 alone: no loop carries a wrapper around a wrapper.
C21_NeverWrappedTwice ==
    \A l \in DOMAIN run_in_executor : run_in_executor[l] <= 1

\* Only disable_tracing takes the module out of the states C21 describes:
\* every other call that starts in such a state ends in one.
C21_OnlyDisableBreaks ==
    [][(/\ WrappedOnceIffPatched(patched_loops, run_in_executor)
        /\ last'.op # "disable")
           => WrappedOnceIffPatched(patched_loops', run_in_executor')]_vars

====
